---- MODULE Spec2Model ----
(***************************************************************************)
(* State-machine model of the GTK calculator.                              *)
(*                                                                         *)
(* Two builds of the calculator are modelled, selected by `variant`:       *)
(*   "calc" - src/calc.c (buttons C, +/-, %, ., the four operators, =)     *)
(*   "sci"  - src/unnamed/part_001 lines 1-381 (the scientific keypad,     *)
(*            one handler special_op for every unary key)                  *)
(*                                                                         *)
(* A C double is modelled as an exact rational n/d in lowest terms, or one *)
(* of the IEEE-754 special values: negative zero, +infinity, -infinity and *)
(* not-a-number.  Binary rounding error of finite values is not modelled.  *)
(* The label of the display frame is a string.  The operator labels        *)
(* U+00F7 and U+00D7 are written "/" and "*".                              *)
(***************************************************************************)
EXTENDS Integers, Sequences, FiniteSets, TLC

(***************************************************************************)
(* Bounds of the model and constants of the program                        *)
(***************************************************************************)
\* largest |numerator| of a finite value the model follows
MaxNumer == 2
\* largest denominator of a finite value the model follows
MaxDenom == 2
\* largest value of Data.decimals the model follows
MaxDecimals == 2

TOT_DIGITS == 12
MAX_PRECISION == 7
\* TOL is 10^-TolExp
TolExp == 7

(***************************************************************************)
(* Doubles                                                                 *)
(***************************************************************************)
Abs(i) == IF i < 0 THEN -i ELSE i

Min(i, j) == IF i < j THEN i ELSE j

RECURSIVE GCD(_, _)
GCD(a, b) == IF b = 0 THEN a ELSE GCD(b, a % b)

RECURSIVE Pow10(_)
Pow10(e) == IF e <= 0 THEN 1 ELSE 10 * Pow10(e - 1)

\* the largest int of the build (int is 32 bits wide)
INT_MAX == 2147483647

\* the largest power of ten an int holds is 10^MaxPow10
RECURSIVE FloorLog10(_)
FloorLog10(m) == IF m < 10 THEN 0 ELSE 1 + FloorLog10(m \div 10)
MaxPow10 == FloorLog10(INT_MAX)

\* the product x * y stays within half the integers the model computes with
MulFits(x, y) == x = 0 \/ Abs(y) <= (INT_MAX \div 2) \div Abs(x)

Zero == [k |-> "fin", n |-> 0, d |-> 1]
NegZero == [k |-> "nzero", n |-> 0, d |-> 1]
PosInf == [k |-> "pinf", n |-> 0, d |-> 1]
NegInf == [k |-> "ninf", n |-> 0, d |-> 1]
NaN == [k |-> "nan", n |-> 0, d |-> 1]
\* a finite value whose fraction the model cannot write down; no step
\* that produces it is followed
Unfollowed == [k |-> "out", n |-> 0, d |-> 1]

\* the double n/d, d > 0; a zero quotient is the positive zero
Fin(n, d) ==
    LET g == GCD(Abs(n), d)
    IN  IF n = 0 THEN Zero ELSE [k |-> "fin", n |-> n \div g, d |-> d \div g]

\* the double of an integer
Int2Dbl(i) == Fin(i, 1)

IsNaN(v) == v.k = "nan"
IsInf(v) == v.k \in {"pinf", "ninf"}
IsFinite(v) == v.k \in {"fin", "nzero"}
\* the C comparison v == 0
IsZero(v) == IsFinite(v) /\ v.n = 0
\* the C comparison v < 0
IsNeg(v) == v.k = "ninf" \/ (v.k = "fin" /\ v.n < 0)
\* the sign bit of a value that is not a NaN
SignBit(v) == v.k \in {"nzero", "ninf"} \/ (v.k = "fin" /\ v.n < 0)

SignedZero(neg) == IF neg THEN NegZero ELSE Zero
SignedInf(neg) == IF neg THEN NegInf ELSE PosInf

\* IEEE-754 negation (used for a - b = a + (-b))
DNeg(a) ==
    IF a.k = "nan" THEN NaN
    ELSE IF a.k = "pinf" THEN NegInf
    ELSE IF a.k = "ninf" THEN PosInf
    ELSE IF a.k = "nzero" THEN Zero
    ELSE IF a.k = "out" THEN Unfollowed
    ELSE IF a.n = 0 THEN NegZero
    ELSE [a EXCEPT !.n = -a.n]

\* IEEE-754 addition, round to nearest
DAdd(a, b) ==
    IF IsNaN(a) \/ IsNaN(b) THEN NaN
    ELSE IF IsInf(a) /\ IsInf(b) THEN (IF a.k = b.k THEN a ELSE NaN)
    ELSE IF IsInf(a) THEN a
    ELSE IF IsInf(b) THEN b
    ELSE IF a.k = "out" \/ b.k = "out" THEN Unfollowed
    ELSE IF ~(MulFits(a.n, b.d) /\ MulFits(b.n, a.d) /\ MulFits(a.d, b.d))
    THEN Unfollowed
    ELSE LET s == a.n * b.d + b.n * a.d
         IN  IF s = 0
             THEN SignedZero(IsZero(a) /\ IsZero(b) /\ SignBit(a) /\ SignBit(b))
             ELSE Fin(s, a.d * b.d)

DSub(a, b) == DAdd(a, DNeg(b))

\* IEEE-754 multiplication
DMul(a, b) ==
    IF IsNaN(a) \/ IsNaN(b) THEN NaN
    ELSE IF (IsInf(a) /\ IsZero(b)) \/ (IsZero(a) /\ IsInf(b)) THEN NaN
    ELSE IF IsInf(a) \/ IsInf(b) THEN SignedInf(SignBit(a) # SignBit(b))
    ELSE IF a.k = "out" \/ b.k = "out" THEN Unfollowed
    ELSE IF IsZero(a) \/ IsZero(b) THEN SignedZero(SignBit(a) # SignBit(b))
    ELSE IF ~(MulFits(a.n, b.n) /\ MulFits(a.d, b.d)) THEN Unfollowed
    ELSE Fin(a.n * b.n, a.d * b.d)

\* IEEE-754 division: x/0 is an infinity, 0/0 and inf/inf are NaN
DDiv(a, b) ==
    IF IsNaN(a) \/ IsNaN(b) THEN NaN
    ELSE IF (IsInf(a) /\ IsInf(b)) \/ (IsZero(a) /\ IsZero(b)) THEN NaN
    ELSE IF a.k = "out" \/ b.k = "out" THEN Unfollowed
    ELSE IF IsInf(a) \/ IsZero(b) THEN SignedInf(SignBit(a) # SignBit(b))
    ELSE IF IsInf(b) \/ IsZero(a) THEN SignedZero(SignBit(a) # SignBit(b))
    ELSE IF ~(MulFits(a.n, b.d) /\ MulFits(a.d, b.n)) THEN Unfollowed
    ELSE IF b.n < 0 THEN Fin(-(a.n * b.d), a.d * (-b.n))
    ELSE Fin(a.n * b.d, a.d * b.n)

(***************************************************************************)
(* Operators of the keypad                                                 *)
(***************************************************************************)
Operators == {"DIV", "MUL", "ADD", "SUB"}

\* do_op whose last branch gives 0 instead of b
do_op_ZeroDefault(a, o, b) ==
    IF o = "DIV" THEN DDiv(a, b)
    ELSE IF o = "MUL" THEN DMul(a, b)
    ELSE IF o = "ADD" THEN DAdd(a, b)
    ELSE IF o = "SUB" THEN DSub(a, b)
    ELSE Zero

\* do_op returning the operand when the running total is not finite
do_op_DropsNonFinite(a, o, b) ==
    IF ~IsFinite(a) THEN b
    ELSE IF o = "DIV" THEN DDiv(a, b)
    ELSE IF o = "MUL" THEN DMul(a, b)
    ELSE IF o = "ADD" THEN DAdd(a, b)
    ELSE IF o = "SUB" THEN DSub(a, b)
    ELSE b

do_op(a, o, b) ==
    IF o = "DIV" THEN DDiv(a, b)
    ELSE IF o = "MUL" THEN DMul(a, b)
    ELSE IF o = "ADD" THEN DAdd(a, b)
    ELSE IF o = "SUB" THEN DSub(a, b)
    ELSE b

op_to_str(o) ==
    IF o = "DIV" THEN "/"
    ELSE IF o = "MUL" THEN "*"
    ELSE IF o = "ADD" THEN "+"
    ELSE IF o = "SUB" THEN "-"
    ELSE ""

str_to_op(str) ==
    IF str = "/" THEN "DIV"
    ELSE IF str = "*" THEN "MUL"
    ELSE IF str = "+" THEN "ADD"
    ELSE IF str = "-" THEN "SUB"
    ELSE "DEFAULT"

(***************************************************************************)
(* Unary operations of the scientific keypad.  The labels U+221A x,        *)
(* U+221B x, x^2 and x^3 are written "sqrt", "cbrt", "x2" and "x3".        *)
(* The model follows an operation only where its result is a value it      *)
(* represents exactly (UnOpExact); elsewhere the result is irrational.     *)
(***************************************************************************)
SpecialLabels ==
    {"x!", "sqrt", "cbrt", "+/-", "%", "x2", "x3", "sin", "cos", "tan"}

str_to_special(str) ==
    IF str = "x!" THEN "FAC"
    ELSE IF str = "sqrt" THEN "SQT"
    ELSE IF str = "cbrt" THEN "CBT"
    ELSE IF str = "+/-" THEN "SGN"
    ELSE IF str = "%" THEN "PCT"
    ELSE IF str = "x2" THEN "SQR"
    ELSE IF str = "x3" THEN "CUB"
    ELSE IF str = "sin" THEN "SIN"
    ELSE IF str = "cos" THEN "COS"
    ELSE IF str = "tan" THEN "TAN"
    ELSE "NUL"

IsInteger(v) == v.k = "fin" /\ v.d = 1

RECURSIVE Factorial(_)
Factorial(m) == IF m <= 1 THEN 1 ELSE m * Factorial(m - 1)

\* the r-th roots of the naturals up to the bounds
HasRoot(m, r) == \E q \in 0 .. m : (IF r = 2 THEN q * q ELSE q * q * q) = m
Root(m, r) == CHOOSE q \in 0 .. m : (IF r = 2 THEN q * q ELSE q * q * q) = m

\* tgamma(x): poles at zero and the negative integers, (x-1)! at the
\* positive integers
tgamma(x) ==
    IF IsNaN(x) \/ x.k = "ninf" THEN NaN
    ELSE IF x.k = "pinf" THEN PosInf
    ELSE IF IsZero(x) THEN SignedInf(SignBit(x))
    ELSE IF x.n < 0 THEN NaN
    ELSE Int2Dbl(Factorial(x.n - 1))

sqrt(a) ==
    IF IsNaN(a) \/ IsNeg(a) THEN NaN
    ELSE IF ~IsFinite(a) \/ IsZero(a) THEN a
    ELSE Fin(Root(a.n, 2), Root(a.d, 2))

cbrt(a) ==
    IF ~IsFinite(a) \/ IsZero(a) THEN a
    ELSE Fin((IF a.n < 0 THEN -1 ELSE 1) * Root(Abs(a.n), 3), Root(a.d, 3))

\* sin and tan at a zero, an infinity or a NaN
sin(a) == IF IsZero(a) THEN a ELSE NaN

\* cos at a zero, an infinity or a NaN
cos(a) == IF IsZero(a) THEN Int2Dbl(1) ELSE NaN

\* the arguments at which the model follows un_op
UnOpExact(a, o) ==
    IF o = "FAC"
    THEN ~IsFinite(a) \/ (IsInteger(DAdd(a, Int2Dbl(1))) /\ a.n <= MaxNumer)
    ELSE IF o = "SQT"
    THEN ~IsFinite(a) \/ IsNeg(a) \/ (HasRoot(a.n, 2) /\ HasRoot(a.d, 2))
    ELSE IF o = "CBT"
    THEN ~IsFinite(a) \/ (HasRoot(Abs(a.n), 3) /\ HasRoot(a.d, 3))
    ELSE IF o \in {"SIN", "COS", "TAN"}
    THEN ~IsFinite(a) \/ IsZero(a)
    ELSE TRUE

un_op(a, o) ==
    IF o = "FAC" THEN tgamma(DAdd(a, Int2Dbl(1)))
    ELSE IF o = "SQT" THEN sqrt(a)
    ELSE IF o = "CBT" THEN cbrt(a)
    ELSE IF o = "SGN" THEN DSub(Zero, a)
    ELSE IF o = "PCT" THEN DDiv(a, Int2Dbl(100))
    ELSE IF o = "SQR" THEN DMul(a, a)
    ELSE IF o = "CUB" THEN DMul(DMul(a, a), a)
    ELSE IF o = "SIN" THEN sin(a)
    ELSE IF o = "COS" THEN cos(a)
    ELSE IF o = "TAN" THEN sin(a)
    ELSE Zero


(***************************************************************************)
(* printf("%.*f") on a double, digit by digit                              *)
(***************************************************************************)
DigitChar(i) == <<"0", "1", "2", "3", "4", "5", "6", "7", "8", "9">>[i + 1]

\* the decimal digits of a natural number, most significant first
RECURSIVE DigitsOfNat(_)
DigitsOfNat(m) ==
    IF m < 10 THEN <<m>> ELSE Append(DigitsOfNat(m \div 10), m % 10)

\* the first p digits of r/d after the decimal point, 0 <= r < d
RECURSIVE FracDigits(_, _, _)
FracDigits(r, d, p) ==
    IF p <= 0 THEN <<>>
    ELSE <<(r * 10) \div d>> \o FracDigits((r * 10) % d, d, p - 1)

\* the remainder left after p digits of r/d
RECURSIVE FracRem(_, _, _)
FracRem(r, d, p) == IF p <= 0 THEN r ELSE FracRem((r * 10) % d, d, p - 1)

\* a digit sequence plus one in the last place
RECURSIVE IncDigits(_)
IncDigits(ds) ==
    IF ds = <<>> THEN <<1>>
    ELSE IF ds[Len(ds)] < 9 THEN [ds EXCEPT ![Len(ds)] = @ + 1]
    ELSE Append(IncDigits(SubSeq(ds, 1, Len(ds) - 1)), 0)

RECURSIVE DigitsToStr(_)
DigitsToStr(ds) ==
    IF ds = <<>> THEN "" ELSE DigitChar(ds[1]) \o DigitsToStr(Tail(ds))

\* |n|/d printed with p digits after the point, the exact value rounded to
\* nearest, ties to even
FixedDigits(n, d, p) ==
    LET ip  == Abs(n) \div d
        r   == Abs(n) % d
        raw == DigitsOfNat(ip) \o FracDigits(r, d, p)
        fr  == FracRem(r, d, p)
        up  == 2 * fr > d \/ (2 * fr = d /\ raw[Len(raw)] % 2 = 1)
        all == IF up THEN IncDigits(raw) ELSE raw
        il  == Len(all) - p
    IN  DigitsToStr(SubSeq(all, 1, il))
        \o (IF p > 0 THEN "." \o DigitsToStr(SubSeq(all, il + 1, Len(all)))
            ELSE "")

(***************************************************************************)
(* State                                                                   *)
(***************************************************************************)
VARIABLES
    decimal,     \* Data.decimal
    decimals,    \* Data.decimals
    op,          \* Data.op
    num,         \* Data.num
    result,      \* Data.result
    display,     \* the label of the frame Data.f
    variant,     \* which build runs: "calc" or "sci"
    nanNeg,      \* whether the NaN of an invalid operation has its sign bit set
    initd,       \* the fields of Data that have been assigned since malloc
    key,         \* the handler that ran last and the label of its button
    pre,         \* what the last handler found: display kind, op, decimal
    hist,        \* the labels pressed since the start or the last clear
    frac,        \* the operand at the last point press and the digits since
    ub,          \* the undefined reads the last handler performed
    scope        \* which values the specification follows

data == <<decimal, decimals, op, num, result>>
calc == <<decimal, decimals, op, num, result, display>>
build == <<variant, nanNeg>>
vars == <<decimal, decimals, op, num, result, display, variant, nanNeg,
          initd, key, pre, hist, frac, ub, scope>>

\* the values of hist and frac that record nothing
Off == <<"off">>
Untracked == <<"untracked">>

\* longest sequence of presses hist records
MaxHist == 6

\* largest garbage value of the unassigned Data.decimals the model follows
MaxUninit == 1
UninitDecimals == -1 .. MaxUninit

\* largest integer the scope "entry" follows
MaxEntry == 25
\* smallest power of ten, 10^-MaxTinyExp, the scope "tiny" follows
MaxTinyExp == 8
\* largest value of Data.decimals the scope "long" follows
MaxLongDecimals == 11

\* the operands of the scope "format" and their opposites: 0, 2.5, 0.125,
\* 12.5, 100.25, 1000, 0.0000001, 99999999.5, 214748364.5, 300000000.5
FormatOperands ==
    {Zero, Fin(5, 2), Fin(1, 8), Fin(25, 2), Fin(401, 4), Int2Dbl(1000),
     Fin(1, 10000000), Fin(199999999, 2), Fin(429496729, 2),
     Fin(600000001, 2)}
FormatValues == FormatOperands \cup {DNeg(v) : v \in FormatOperands \ {Zero}}

(***************************************************************************)
(* Number formatter                                                        *)
(***************************************************************************)
\* printf("%.*f", precision, num); a negative precision is the default 6
Printf(v, precision) ==
    LET p == IF precision < 0 THEN 6 ELSE precision
    IN  IF v.k = "nan" THEN (IF nanNeg THEN "-nan" ELSE "nan")
        ELSE IF v.k = "pinf" THEN "inf"
        ELSE IF v.k = "ninf" THEN "-inf"
        ELSE (IF SignBit(v) THEN "-" ELSE "") \o FixedDigits(v.n, v.d, p)

\* snprintf into the buffer of TOT_DIGITS + 1 bytes cuts the text
precise_num2str(v, precision) ==
    LET str == Printf(v, precision)
    IN  SubSeq(str, 1, Min(Len(str), TOT_DIGITS))

\* round(num * factor), factor = 10^i, half away from zero, is
\* IntPart(v) * 10^i + ShiftedFrac(v, i) in magnitude
IntPart(v) == Abs(v.n) \div v.d

ShiftedFrac(v, i) ==
    LET m == (Abs(v.n) % v.d) * Pow10(i)
    IN  (m \div v.d) + (IF 2 * (m % v.d) >= v.d THEN 1 ELSE 0)

\* round(num * factor) is outside the range of int.  The conversion is then
\* undefined; whichever int it leaves in shifted, rounded is not within TOL
\* of num, so the precision i is not accepted.
ShiftedOverflows(v, i) ==
    LET t == ShiftedFrac(v, i)
        b == IF v.n < 0 /\ t > 0 THEN 1 ELSE 0
    IN  IntPart(v) > (INT_MAX - t + b) \div Pow10(i)

\* int shifted = round(num * factor), where it fits an int
Shifted(v, i) ==
    LET q == IntPart(v) * Pow10(i) + ShiftedFrac(v, i)
    IN  IF v.n < 0 THEN -q ELSE q

\* fabs(num - rounded) < TOL, rounded = shifted / 10^i: the distance is
\* e / (d * 10^i) with e as below, and TOL is 10^-TolExp
Close(v, i) ==
    LET e == Abs((Abs(v.n) % v.d) * Pow10(i) - ShiftedFrac(v, i) * v.d)
    IN  IF i >= TolExp THEN e < v.d * Pow10(i - TolExp)
        ELSE e <= (v.d - 1) \div Pow10(TolExp - i)

\* the loop over the precisions 0 .. MAX_PRECISION from i on: the first
\* precision that is accepted, or -1
RECURSIVE FirstClose(_, _)
FirstClose(v, i) ==
    IF i > MAX_PRECISION THEN -1
    ELSE IF ~ShiftedOverflows(v, i) /\ Close(v, i) THEN i
    ELSE FirstClose(v, i + 1)

\* ceil(log10(m)) for m >= 1
RECURSIVE CeilLog10(_)
CeilLog10(m) == IF m <= 1 THEN 0 ELSE 1 + CeilLog10((m + 9) \div 10)

\* the precision of the last return of num2str
FallbackPrecision(v) ==
    LET int_part   == Abs(v.n) \div v.d
        int_digits == IF int_part = 0 THEN 0 ELSE CeilLog10(int_part)
        precision  == TOT_DIGITS - int_digits
    IN  IF precision < 0 THEN 0 ELSE precision

\* For an infinity or a NaN no precision of the loop is accepted (the
\* comparison with TOL is false) and printf ignores the precision, so the
\* int conversions of such a value, which are undefined, do not show.
num2str(v, dec, decs) ==
    IF dec THEN precise_num2str(v, decs)
    ELSE IF IsZero(v) THEN precise_num2str(Zero, 0)
    ELSE IF ~IsFinite(v) THEN precise_num2str(v, 0)
    ELSE LET i == FirstClose(v, 0)
         IN  IF i >= 0
             THEN precise_num2str(Fin(Shifted(v, i), Pow10(i)), i)
             ELSE precise_num2str(v, FallbackPrecision(v))

(***************************************************************************)
(* Initial state: main() and activate()                                    *)
(***************************************************************************)
\* malloc leaves Data.decimal and Data.decimals unassigned
Start ==
    /\ variant \in {"calc", "sci"}
    /\ nanNeg \in BOOLEAN
    /\ op = "DEFAULT"
    /\ num = Zero
    /\ result = Zero
    /\ decimal \in BOOLEAN
    /\ decimals \in UninitDecimals
    /\ display = "0"
    /\ initd = {"op", "num", "result"}
    /\ key = <<"none", "">>
    /\ pre = <<"num", "DEFAULT", FALSE>>
    /\ ub = {}

Init ==
    /\ Start
    /\ hist = Untracked
    /\ frac = Untracked
    /\ scope = "small"

\* the finite values a specification follows: fractions of small
\* numerator and denominator ("small", "long"), the integers of an entry
\* ("entry"), the powers 10^-e ("tiny"), the operands of FormatValues
\* ("format")
InScope(v) ==
    IF scope = "entry" THEN v.d = 1 /\ Abs(v.n) <= MaxEntry
    ELSE IF scope = "tiny"
    THEN Abs(v.n) <= 1 /\ v.d \in {Pow10(e) : e \in 0 .. MaxTinyExp}
    ELSE IF scope = "format" THEN v \in FormatValues
    ELSE Abs(v.n) <= MaxNumer /\ v.d <= MaxDenom

\* a value the model follows
InRange(v) ==
    \/ v.k \in {"nzero", "pinf", "ninf", "nan"}
    \/ v.k = "fin" /\ InScope(v)

\* the step stays within the values the model follows
Followed ==
    /\ InRange(num')
    /\ InRange(result')
    /\ decimals' <= (IF scope = "long" THEN MaxLongDecimals ELSE MaxDecimals)

(***************************************************************************)
(* Handlers                                                                *)
(***************************************************************************)
ErrorMarkers == {"inf", "-inf", "nan", "-nan"}

\* what a display text shows: an operator, an error marker or a number
Shown(str) ==
    IF str_to_op(str) # "DEFAULT" THEN "op"
    ELSE IF str \in ErrorMarkers THEN "err"
    ELSE "num"

DigitLabels == {DigitChar(d) : d \in 0 .. 9}
OpLabels == {"/", "*", "+", "-"}
BadLabels == {"%"}

\* hist follows the presses while they spell a prefix of
\*     digits {operator digits} {operator digits} "="
\* and is Off after any other press or beyond MaxHist presses
OpsIn(h) == {i \in 1 .. Len(h) : h[i] \in OpLabels}

Track(h, handler, l) ==
    IF h = Untracked THEN Untracked
    ELSE IF handler = "clear" THEN <<>>
    ELSE IF h = Off \/ Len(h) >= MaxHist THEN Off
    ELSE IF handler = "entering"
    THEN (IF h # <<>> /\ h[Len(h)] = "=" THEN Off ELSE Append(h, l))
    ELSE IF handler = "binary_op" /\ h # <<>> /\ h[Len(h)] \in DigitLabels
    THEN (IF l \in OpLabels /\ Cardinality(OpsIn(h)) < 2 THEN Append(h, l)
          ELSE IF l = "=" /\ Cardinality(OpsIn(h)) = 2 THEN Append(h, l)
          ELSE Off)
    ELSE Off

\* frac is <<"on", x, digits>> from a point press that is accepted on the
\* operand x, through the digit presses that follow it, and Off after any
\* other press
TrackPoint(f, handler, l) ==
    IF f = Untracked THEN Untracked
    ELSE IF handler = "point"
    THEN (IF ~decimal /\ str_to_op(display) = "DEFAULT"
          THEN <<"on", num, <<>> >> ELSE Off)
    ELSE IF handler = "entering" /\ f[1] = "on" /\ Len(f[3]) <= MaxDecimals
    THEN <<"on", f[2], Append(f[3], l)>>
    ELSE Off

\* the handler h runs for the button labelled l (the label is recorded for
\* the digit and the operator buttons)
Pressed(h, l) ==
    /\ key' = <<h, l>>
    /\ pre' = <<Shown(display), op, decimal>>
    /\ hist' = Track(hist, h, l)
    /\ frac' = TrackPoint(frac, h, l)
    /\ scope' = scope

\* display shows inf (calc) or inf / nan (sci)
ShowsError(prev) ==
    IF variant = "calc" THEN prev = "inf" ELSE prev \in {"inf", "nan"}

\* double factor = pow(10, data->decimals)
factor(e) ==
    IF e > MaxPow10 THEN Unfollowed
    ELSE IF e >= 0 THEN Int2Dbl(Pow10(e))
    ELSE IF -e > MaxPow10 THEN Unfollowed
    ELSE Fin(1, Pow10(-e))

\* entering appending the digit to the old operand on an operator display
entering_KeepsOperand(d, stale) ==
    LET prev == display
        button_label == DigitChar(d)
        entered_num == Int2Dbl(d)
        err == ShowsError(prev)
        freed == variant = "calc" /\ err
        num1 == IF err THEN Zero ELSE num
        result1 == IF err THEN Zero ELSE result
        lead == (IF freed THEN stale ELSE prev = "0") /\ IsZero(entered_num)
        decimals1 == IF decimal THEN decimals + 1 ELSE decimals
        part == IF d = 0 THEN Zero ELSE DDiv(entered_num, factor(decimals1))
        num2 == IF decimal
                THEN (IF IsNeg(num1) THEN DSub(num1, part) ELSE DAdd(num1, part))
                ELSE DAdd(DMul(num1, Int2Dbl(10)), entered_num)
    IN  /\ Pressed("entering", button_label)
        /\ UNCHANGED build
        /\ IF str_to_op(prev) # "DEFAULT"
           THEN /\ display' = button_label
                /\ num' = DAdd(DMul(num, Int2Dbl(10)), entered_num)
                /\ UNCHANGED <<decimal, decimals, op, result, initd>>
                /\ ub' = {}
           ELSE IF lead
           THEN /\ num' = Zero
                /\ result' = result1
                /\ display' = IF err THEN button_label ELSE display
                /\ UNCHANGED <<decimal, decimals, op, initd>>
                /\ ub' = IF freed THEN {"freed"} ELSE {}
           ELSE /\ num' = num2
                /\ result' = result1
                /\ decimals' = decimals1
                /\ Followed
                /\ display' = num2str(num2, decimal, decimals1)
                /\ UNCHANGED <<decimal, op, initd>>
                /\ ub' = (IF freed THEN {"freed"} ELSE {})
                         \cup ({"decimal"} \ initd)
                         \cup (IF decimal THEN {"decimals"} \ initd ELSE {})
        /\ stale => (freed /\ IsZero(entered_num))
        /\ Followed

\* entering starting a new operand after "="
entering_NewAfterEquals(d, stale) ==
    LET prev == display
        button_label == DigitChar(d)
        entered_num == Int2Dbl(d)
        err == ShowsError(prev)
        freed == variant = "calc" /\ err
        num1 == IF err \/ key = <<"binary_op", "=">> THEN Zero ELSE num
        result1 == IF err THEN Zero ELSE result
        lead == (IF freed THEN stale ELSE prev = "0") /\ IsZero(entered_num)
        decimals1 == IF decimal THEN decimals + 1 ELSE decimals
        part == IF d = 0 THEN Zero ELSE DDiv(entered_num, factor(decimals1))
        num2 == IF decimal
                THEN (IF IsNeg(num1) THEN DSub(num1, part) ELSE DAdd(num1, part))
                ELSE DAdd(DMul(num1, Int2Dbl(10)), entered_num)
    IN  /\ Pressed("entering", button_label)
        /\ UNCHANGED build
        /\ IF str_to_op(prev) # "DEFAULT"
           THEN /\ display' = button_label
                /\ num' = entered_num
                /\ UNCHANGED <<decimal, decimals, op, result, initd>>
                /\ ub' = {}
           ELSE IF lead
           THEN /\ num' = Zero
                /\ result' = result1
                /\ display' = IF err THEN button_label ELSE display
                /\ UNCHANGED <<decimal, decimals, op, initd>>
                /\ ub' = IF freed THEN {"freed"} ELSE {}
           ELSE /\ num' = num2
                /\ result' = result1
                /\ decimals' = decimals1
                /\ Followed
                /\ display' = num2str(num2, decimal, decimals1)
                /\ UNCHANGED <<decimal, op, initd>>
                /\ ub' = (IF freed THEN {"freed"} ELSE {})
                         \cup ({"decimal"} \ initd)
                         \cup (IF decimal THEN {"decimals"} \ initd ELSE {})
        /\ stale => (freed /\ IsZero(entered_num))
        /\ Followed

\* the digit buttons.  In calc.c prev points into the label that
\* display_str has just replaced when the display showed "inf", so the
\* comparison of prev with "0" reads freed memory: stale is its outcome.
entering(d, stale) ==
    LET prev == display
        button_label == DigitChar(d)
        entered_num == Int2Dbl(d)
        err == ShowsError(prev)
        freed == variant = "calc" /\ err
        num1 == IF err THEN Zero ELSE num
        result1 == IF err THEN Zero ELSE result
        lead == (IF freed THEN stale ELSE prev = "0") /\ IsZero(entered_num)
        decimals1 == IF decimal THEN decimals + 1 ELSE decimals
        part == IF d = 0 THEN Zero ELSE DDiv(entered_num, factor(decimals1))
        num2 == IF decimal
                THEN (IF IsNeg(num1) THEN DSub(num1, part) ELSE DAdd(num1, part))
                ELSE DAdd(DMul(num1, Int2Dbl(10)), entered_num)
    IN  /\ Pressed("entering", button_label)
        /\ UNCHANGED build
        /\ IF str_to_op(prev) # "DEFAULT"
           THEN /\ display' = button_label
                /\ num' = entered_num
                /\ UNCHANGED <<decimal, decimals, op, result, initd>>
                /\ ub' = {}
           ELSE IF lead
           THEN /\ num' = Zero
                /\ result' = result1
                /\ display' = IF err THEN button_label ELSE display
                /\ UNCHANGED <<decimal, decimals, op, initd>>
                /\ ub' = IF freed THEN {"freed"} ELSE {}
           ELSE /\ num' = num2
                /\ result' = result1
                /\ decimals' = decimals1
                /\ Followed
                /\ display' = num2str(num2, decimal, decimals1)
                /\ UNCHANGED <<decimal, op, initd>>
                /\ ub' = (IF freed THEN {"freed"} ELSE {})
                         \cup ({"decimal"} \ initd)
                         \cup (IF decimal THEN {"decimals"} \ initd ELSE {})
        /\ stale => (freed /\ IsZero(entered_num))
        /\ Followed

\* sign leaving decimal mode as it is
sign_KeepsDecimal ==
    /\ variant = "calc"
    /\ Pressed("sign", "")
    /\ ub' = {}
    /\ IF str_to_op(display) = "DEFAULT"
       THEN /\ num' = DSub(Zero, num)
            /\ display' = num2str(DSub(Zero, num), decimal, decimals)
       ELSE UNCHANGED <<num, display>>
    /\ UNCHANGED <<decimal, decimals, initd, op, result, build>>
    /\ Followed

\* sign without the test for a displayed operator
sign_NoOpCheck ==
    /\ variant = "calc"
    /\ Pressed("sign", "")
    /\ decimal' = FALSE
    /\ decimals' = 0
    /\ initd' = initd \cup {"decimal", "decimals"}
    /\ ub' = {}
    /\ num' = DSub(Zero, num)
    /\ display' = num2str(DSub(Zero, num), FALSE, 0)
    /\ UNCHANGED <<op, result, build>>
    /\ Followed

\* the (+/-) button of calc.c
sign ==
    /\ variant = "calc"
    /\ Pressed("sign", "")
    /\ decimal' = FALSE
    /\ decimals' = 0
    /\ initd' = initd \cup {"decimal", "decimals"}
    /\ ub' = {}
    /\ IF str_to_op(display) = "DEFAULT"
       THEN /\ num' = DSub(Zero, num)
            /\ display' = num2str(DSub(Zero, num), FALSE, 0)
       ELSE UNCHANGED <<num, display>>
    /\ UNCHANGED <<op, result, build>>
    /\ Followed

\* percent zeroing the running total
percent_ZeroesResult ==
    /\ variant = "calc"
    /\ Pressed("percent", "")
    /\ decimal' = FALSE
    /\ decimals' = 0
    /\ initd' = initd \cup {"decimal", "decimals"}
    /\ ub' = {}
    /\ IF str_to_op(display) = "DEFAULT"
       THEN /\ num' = DDiv(num, Int2Dbl(100))
            /\ InRange(num')
            /\ display' = num2str(DDiv(num, Int2Dbl(100)), FALSE, 0)
       ELSE UNCHANGED <<num, display>>
    /\ result' = Zero
    /\ UNCHANGED <<op, build>>
    /\ Followed

\* the (%) button of calc.c
percent ==
    /\ variant = "calc"
    /\ Pressed("percent", "")
    /\ decimal' = FALSE
    /\ decimals' = 0
    /\ initd' = initd \cup {"decimal", "decimals"}
    /\ ub' = {}
    /\ IF str_to_op(display) = "DEFAULT"
       THEN /\ num' = DDiv(num, Int2Dbl(100))
            /\ InRange(num')
            /\ display' = num2str(DDiv(num, Int2Dbl(100)), FALSE, 0)
       ELSE UNCHANGED <<num, display>>
    /\ UNCHANGED <<op, result, build>>
    /\ Followed

\* the unary buttons of the scientific keypad
special_op(button_label) ==
    LET o == str_to_special(button_label)
    IN  /\ variant = "sci"
        /\ Pressed("special_op", "")
        /\ decimal' = FALSE
        /\ decimals' = 0
        /\ initd' = initd \cup {"decimal", "decimals"}
        /\ ub' = {}
        /\ IF str_to_op(display) = "DEFAULT"
           THEN /\ UnOpExact(num, o)
                /\ num' = un_op(num, o)
                /\ InRange(num')
                /\ display' = num2str(un_op(num, o), FALSE, 0)
           ELSE UNCHANGED <<num, display>>
        /\ UNCHANGED <<op, result, build>>
        /\ Followed

\* point without the test of Data.decimal
point_NoRepeatCheck ==
    /\ Pressed("point", "")
    /\ UNCHANGED build
    /\ ub' = {}
    /\ IF str_to_op(display) = "DEFAULT"
       THEN /\ display' = display \o "."
            /\ decimal' = TRUE
            /\ initd' = initd \cup {"decimal"}
            /\ UNCHANGED <<decimals, op, num, result>>
       ELSE UNCHANGED <<calc, initd>>
    /\ Followed

\* the (.) button; strcat writes the point into the label's own text
point ==
    /\ Pressed("point", "")
    /\ UNCHANGED build
    /\ ub' = {"decimal"} \ initd
    /\ IF decimal
       THEN UNCHANGED <<calc, initd>>
       ELSE IF str_to_op(display) = "DEFAULT"
       THEN /\ display' = display \o "."
            /\ decimal' = TRUE
            /\ initd' = initd \cup {"decimal"}
            /\ UNCHANGED <<decimals, op, num, result>>
       ELSE UNCHANGED <<calc, initd>>
    /\ Followed

\* binary_op without the early return for an unknown label
binary_op_NoReturn(button_label) ==
    LET o == str_to_op(button_label)
        result1 == do_op(result, op, num)
    IN  /\ Pressed("binary_op", button_label)
        /\ UNCHANGED build
        /\ ub' = {}
        /\ decimal' = FALSE
        /\ decimals' = 0
        /\ initd' = initd \cup {"decimal", "decimals"}
        /\ op' = o
        /\ InRange(result1)
        /\ IF o = "DEFAULT"
           THEN /\ display' = num2str(result1, FALSE, 0)
                /\ num' = result1
                /\ result' = Zero
           ELSE /\ display' = op_to_str(o)
                /\ result' = result1
                /\ num' = num
        /\ Followed

\* binary_op without the reset of Data.result after "="
binary_op_KeepsResult(button_label) ==
    LET o == str_to_op(button_label)
        result1 == do_op(result, op, num)
    IN  /\ Pressed("binary_op", button_label)
        /\ UNCHANGED build
        /\ ub' = {}
        /\ IF o = "DEFAULT" /\ button_label # "="
           THEN UNCHANGED <<calc, initd>>
           ELSE /\ decimal' = FALSE
                /\ decimals' = 0
                /\ initd' = initd \cup {"decimal", "decimals"}
                /\ op' = o
                /\ InRange(result1)
                /\ IF o = "DEFAULT"
                   THEN /\ display' = num2str(result1, FALSE, 0)
                        /\ num' = result1
                        /\ result' = result1
                   ELSE /\ display' = op_to_str(o)
                        /\ result' = result1
                        /\ num' = num
        /\ Followed

\* binary_op that stores the operand without applying the pending operator
binary_op_DropsPending(button_label) ==
    LET o == str_to_op(button_label)
        result1 == do_op(result, op, num)
    IN  /\ Pressed("binary_op", button_label)
        /\ UNCHANGED build
        /\ ub' = {}
        /\ IF o = "DEFAULT" /\ button_label # "="
           THEN UNCHANGED <<calc, initd>>
           ELSE /\ decimal' = FALSE
                /\ decimals' = 0
                /\ initd' = initd \cup {"decimal", "decimals"}
                /\ op' = o
                /\ InRange(result1)
                /\ IF o = "DEFAULT"
                   THEN /\ display' = num2str(result1, FALSE, 0)
                        /\ num' = result1
                        /\ result' = Zero
                   ELSE /\ display' = op_to_str(o)
                        /\ result' = num
                        /\ num' = num
        /\ Followed

\* binary_op without the assignment to Data.op
binary_op_KeepsOp(button_label) ==
    LET o == str_to_op(button_label)
        result1 == do_op(result, op, num)
    IN  /\ Pressed("binary_op", button_label)
        /\ UNCHANGED build
        /\ ub' = {}
        /\ IF o = "DEFAULT" /\ button_label # "="
           THEN UNCHANGED <<calc, initd>>
           ELSE /\ decimal' = FALSE
                /\ decimals' = 0
                /\ initd' = initd \cup {"decimal", "decimals"}
                /\ op' = op
                /\ InRange(result1)
                /\ IF o = "DEFAULT"
                   THEN /\ display' = num2str(result1, FALSE, 0)
                        /\ num' = result1
                        /\ result' = Zero
                   ELSE /\ display' = op_to_str(o)
                        /\ result' = result1
                        /\ num' = num
        /\ Followed

\* binary_op without the exit from decimal mode
binary_op_KeepsDecimal(button_label) ==
    LET o == str_to_op(button_label)
        result1 == do_op(result, op, num)
    IN  /\ Pressed("binary_op", button_label)
        /\ UNCHANGED build
        /\ ub' = {}
        /\ IF o = "DEFAULT" /\ button_label # "="
           THEN UNCHANGED <<calc, initd>>
           ELSE /\ UNCHANGED <<decimal, decimals, initd>>
                /\ op' = o
                /\ InRange(result1)
                /\ IF o = "DEFAULT"
                   THEN /\ display' = num2str(result1, FALSE, 0)
                        /\ num' = result1
                        /\ result' = Zero
                   ELSE /\ display' = op_to_str(o)
                        /\ result' = result1
                        /\ num' = num
        /\ Followed

\* binary_op that only replaces the pending operator while an operator is
\* displayed
binary_op_ReplacesOperator(button_label) ==
    LET o == str_to_op(button_label)
        result1 == IF Shown(display) = "op" THEN result
                   ELSE do_op(result, op, num)
    IN  /\ Pressed("binary_op", button_label)
        /\ UNCHANGED build
        /\ ub' = {}
        /\ IF o = "DEFAULT" /\ button_label # "="
           THEN UNCHANGED <<calc, initd>>
           ELSE /\ decimal' = FALSE
                /\ decimals' = 0
                /\ initd' = initd \cup {"decimal", "decimals"}
                /\ op' = o
                /\ InRange(result1)
                /\ IF o = "DEFAULT"
                   THEN /\ display' = num2str(result1, FALSE, 0)
                        /\ num' = result1
                        /\ result' = Zero
                   ELSE /\ display' = op_to_str(o)
                        /\ result' = result1
                        /\ num' = num
        /\ Followed

\* the operator buttons and "="
binary_op(button_label) ==
    LET o == str_to_op(button_label)
        result1 == do_op(result, op, num)
    IN  /\ Pressed("binary_op", button_label)
        /\ UNCHANGED build
        /\ ub' = {}
        /\ IF o = "DEFAULT" /\ button_label # "="
           THEN UNCHANGED <<calc, initd>>
           ELSE /\ decimal' = FALSE
                /\ decimals' = 0
                /\ initd' = initd \cup {"decimal", "decimals"}
                /\ op' = o
                /\ InRange(result1)
                /\ IF o = "DEFAULT"
                   THEN /\ display' = num2str(result1, FALSE, 0)
                        /\ num' = result1
                        /\ result' = Zero
                   ELSE /\ display' = op_to_str(o)
                        /\ result' = result1
                        /\ num' = num
        /\ Followed

\* clear without the assignment to Data.result
clear_KeepsResult ==
    /\ Pressed("clear", "")
    /\ UNCHANGED build
    /\ ub' = {}
    /\ decimal' = FALSE
    /\ decimals' = 0
    /\ op' = "DEFAULT"
    /\ result' = result
    /\ num' = Zero
    /\ display' = "0"
    /\ initd' = initd \cup {"decimal", "decimals"}

\* clear without the assignment to Data.decimal
clear_KeepsDecimal ==
    /\ Pressed("clear", "")
    /\ UNCHANGED build
    /\ ub' = {}
    /\ decimal' = decimal
    /\ decimals' = 0
    /\ op' = "DEFAULT"
    /\ result' = Zero
    /\ num' = Zero
    /\ display' = "0"
    /\ initd' = initd \cup {"decimals"}

\* the (C) button
clear ==
    /\ Pressed("clear", "")
    /\ UNCHANGED build
    /\ ub' = {}
    /\ decimal' = FALSE
    /\ decimals' = 0
    /\ op' = "DEFAULT"
    /\ result' = Zero
    /\ num' = Zero
    /\ display' = "0"
    /\ initd' = initd \cup {"decimal", "decimals"}

Next ==
    \/ \E d \in 0 .. 9, stale \in BOOLEAN : entering(d, stale)
    \/ sign
    \/ percent
    \/ \E l \in SpecialLabels : special_op(l)
    \/ point
    \/ \E l \in OpLabels \cup {"="} \cup BadLabels : binary_op(l)
    \/ clear

Spec == Init /\ [][Next]_vars

\* the presses of a chain of operations, hist recording them
InitChain ==
    /\ Start
    /\ hist = <<>>
    /\ frac = Untracked
    /\ scope = "small"

NextChain ==
    \/ \E d \in 0 .. 9, stale \in BOOLEAN : entering(d, stale)
    \/ \E l \in OpLabels \cup {"="} : binary_op(l)
    \/ clear

SpecChain == InitChain /\ [][NextChain]_vars

\* the presses of a fractional entry, frac recording them
InitPoint ==
    /\ Start
    /\ hist = Untracked
    /\ frac = Off
    /\ scope = "small"

NextPoint ==
    \/ \E d \in 0 .. 9, stale \in BOOLEAN : entering(d, stale)
    \/ sign
    \/ special_op("+/-")
    \/ point
    \/ \E l \in {"/", "="} : binary_op(l)
    \/ clear

SpecPoint == InitPoint /\ [][NextPoint]_vars

\* the number of digits after the point a finite value needs
FracLen(v) ==
    CHOOSE k \in 0 .. MaxPow10 :
        /\ Pow10(k) % v.d = 0
        /\ \A j \in 0 .. k - 1 : Pow10(j) % v.d # 0

\* the state after Clear and the digits, point and digits that spell an
\* operand of FormatOperands
Typed(v) ==
    /\ op = "DEFAULT"
    /\ num = v
    /\ result = Zero
    /\ decimal = (FracLen(v) > 0)
    /\ decimals = FracLen(v)
    /\ display = num2str(v, FracLen(v) > 0, FracLen(v))
    /\ initd = {"op", "num", "result", "decimal", "decimals"}
    /\ key = <<"entering", SubSeq(display, Len(display), Len(display))>>
    /\ pre = <<"num", "DEFAULT", FracLen(v) > 0>>
    /\ ub = {}

\* the formatter applied to large and to short operands
InitFormat ==
    /\ variant \in {"calc", "sci"}
    /\ nanNeg \in BOOLEAN
    /\ \E v \in FormatOperands : Typed(v)
    /\ hist = Untracked
    /\ frac = Untracked
    /\ scope = "format"

NextFormat ==
    \/ sign
    \/ special_op("+/-")
    \/ binary_op("=")
    \/ clear

SpecFormat == InitFormat /\ [][NextFormat]_vars

\* the entry of long fractions
InitLong ==
    /\ Start
    /\ hist = Untracked
    /\ frac = Untracked
    /\ scope = "long"

NextLong ==
    \/ \E d \in 0 .. 9, stale \in BOOLEAN : entering(d, stale)
    \/ point
    \/ binary_op("=")
    \/ clear

SpecLong == InitLong /\ [][NextLong]_vars

\* operands between 10^-MaxTinyExp and 1, reached with the percent key
TinyLabels == {"+/-", "%"}

InitTiny ==
    /\ Start
    /\ hist = Untracked
    /\ frac = Untracked
    /\ scope = "tiny"

NextTiny ==
    \/ \E d \in 0 .. 9, stale \in BOOLEAN : entering(d, stale)
    \/ sign
    \/ percent
    \/ \E l \in TinyLabels : special_op(l)
    \/ point
    \/ binary_op("=")
    \/ clear

SpecTiny == InitTiny /\ [][NextTiny]_vars

\* integer operands up to MaxEntry, typed digit by digit around an operator
InitEntry ==
    /\ Start
    /\ hist = Untracked
    /\ frac = Untracked
    /\ scope = "entry"

NextEntry ==
    \/ \E d \in 0 .. 9, stale \in BOOLEAN : entering(d, stale)
    \/ \E l \in {"+", "="} : binary_op(l)
    \/ clear

SpecEntry == InitEntry /\ [][NextEntry]_vars

\* integer results up to MaxEntry, negative ones included, and the digits
\* typed after them
InitResult ==
    /\ Start
    /\ hist = Untracked
    /\ frac = Untracked
    /\ scope = "entry"

NextResult ==
    \/ \E d \in 0 .. 9, stale \in BOOLEAN : entering(d, stale)
    \/ \E l \in {"-", "="} : binary_op(l)
    \/ clear

SpecResult == InitResult /\ [][NextResult]_vars

(***************************************************************************)
(* Properties                                                              *)
(***************************************************************************)
DigitVal(l) == CHOOSE d \in 0 .. 9 : DigitChar(d) = l

\* the decimal value of a sequence of digit labels
RECURSIVE DecimalValue(_)
DecimalValue(ls) ==
    IF ls = <<>> THEN 0
    ELSE DigitVal(ls[1]) * Pow10(Len(ls) - 1) + DecimalValue(Tail(ls))

Recorded(h) == h # Off /\ h # Untracked /\ h # <<>>

\* two doubles that compare equal in C (the two zeros do)
NumEq(a, b) == a = b \/ (IsZero(a) /\ IsZero(b))

\* C1: from the initial or cleared state the presses a OP1 b OP2 c = leave
\* current_operand equal to (a OP1 b) OP2 c and display it.
C1_LeftToRight ==
    (Recorded(hist) /\ hist[Len(hist)] = "=") =>
        LET p1 == CHOOSE i \in OpsIn(hist) : \A j \in OpsIn(hist) : i <= j
            p2 == CHOOSE i \in OpsIn(hist) : \A j \in OpsIn(hist) : i >= j
            a  == Int2Dbl(DecimalValue(SubSeq(hist, 1, p1 - 1)))
            b  == Int2Dbl(DecimalValue(SubSeq(hist, p1 + 1, p2 - 1)))
            c  == Int2Dbl(DecimalValue(SubSeq(hist, p2 + 1, Len(hist) - 1)))
            v  == do_op(do_op(a, str_to_op(hist[p1]), b), str_to_op(hist[p2]), c)
        IN  /\ num = v
            /\ display = num2str(v, FALSE, 0)

\* C2: from the initial or cleared state, after digit presses only,
\* current_operand is the decimal value of the digits, and the display stays
\* "0" while every digit pressed is 0.
C2_DigitsAccumulate ==
    (Recorded(hist) /\ \A i \in 1 .. Len(hist) : hist[i] \in DigitLabels) =>
        /\ num = Int2Dbl(DecimalValue(hist))
        /\ (\A i \in 1 .. Len(hist) : hist[i] = "0") => display = "0"

\* C3: after a point press on the operand x and the digits d1..dn,
\* current_operand has the sign of x and the magnitude |x| + 0.d1...dn, and
\* decimal_digit_count is n.
C3_FractionEntry ==
    frac[1] = "on" =>
        LET x == frac[2]
            n == Len(frac[3])
            f == Fin(DecimalValue(frac[3]), Pow10(n))
        IN  /\ NumEq(num, IF IsNeg(x) THEN DSub(x, f) ELSE DAdd(x, f))
            /\ decimals = n

\* C4: a point press while decimal_mode is true changes no field and not
\* the display.
C4_PointRepeatNoOp ==
    [][(key' = <<"point", "">> /\ decimal) => UNCHANGED calc]_vars

\* a point press found decimal_mode true on the display "0.5"
C4_Witness ==
    key = <<"point", "">> /\ pre[3] /\ decimal /\ display = "0.5"

\* C5: x / 0 = shows "inf" for every finite operand x.
C5_DivZeroShowsInf ==
    [][(/\ key' = <<"binary_op", "=">>
        /\ op = "DIV"
        /\ key = <<"entering", "0">>
        /\ pre[1] = "op"
        /\ IsFinite(result)) => display' = "inf"]_vars

\* C6: a digit pressed while the display shows an error marker leaves
\* current_operand = d, accumulated_result = 0 and the display showing d.
C6_DigitOnErrorClears ==
    [][(key'[1] = "entering" /\ display \in ErrorMarkers) =>
           /\ num' = Int2Dbl(DigitVal(key'[2]))
           /\ result' = Zero
           /\ display' = key'[2]]_vars

C8_StartZeroed ==
    /\ key[1] = "none" =>
        /\ op = "DEFAULT"
        /\ num = Zero
        /\ result = Zero
        /\ decimal = FALSE
        /\ decimals = 0
        /\ display = "0"
    /\ ub \cap {"decimal", "decimals"} = {}

\* C9: "=" with no pending operator keeps current_operand and redisplays
\* it, leaves accumulated_result 0 and the operator none, and pressed again
\* changes nothing.
C9_EqualsNoPending ==
    [][(key' = <<"binary_op", "=">> /\ op = "DEFAULT") =>
           /\ num' = num
           /\ result' = Zero
           /\ op' = "DEFAULT"
           /\ display' = num2str(num, FALSE, 0)
           /\ (key = <<"binary_op", "=">> => UNCHANGED calc)]_vars

\* "=" was pressed with no pending operator on the entry 0.5
C9_Witness ==
    /\ key = <<"binary_op", "=">>
    /\ pre = <<"num", "DEFAULT", TRUE>>
    /\ display = "0.5"

\* C10: a label that is neither an operator nor "=" leaves every field and
\* the display unchanged.
C10_BadTokenNoOp ==
    [][(key'[1] = "binary_op" /\ key'[2] \in BadLabels) => UNCHANGED calc]_vars

\* an unknown label was delivered in decimal mode with an operator pending
C10_Witness ==
    key = <<"binary_op", "%">> /\ decimal /\ op = "ADD" /\ display = "0.5"

\* C11: "=" applies the pending operator to accumulated_result and
\* current_operand, copies the outcome into current_operand and displays it
\* formatted, and leaves accumulated_result = 0, pending_operator = none and
\* decimal_mode = false.
C11_EqualsEvaluates ==
    [][(key' = <<"binary_op", "=">>) =>
           /\ num' = do_op(result, op, num)
           /\ display' = num2str(do_op(result, op, num), FALSE, 0)
           /\ result' = Zero
           /\ op' = "DEFAULT"
           /\ decimal' = FALSE]_vars

\* "=" evaluated a pending division entered in decimal mode: 1 / 2.0 =
C11_Witness ==
    /\ key = <<"binary_op", "=">>
    /\ pre = <<"num", "DIV", TRUE>>
    /\ display = "0.5"
    /\ result = Zero

\* C15: a binary operator press stores apply(old pending_operator,
\* accumulated_result, current_operand) in accumulated_result, makes the
\* pressed operator pending, displays its symbol, keeps current_operand and
\* leaves decimal-entry mode.
C15_OperatorPress ==
    [][(key'[1] = "binary_op" /\ key'[2] \in OpLabels) =>
           /\ result' = do_op(result, op, num)
           /\ op' = str_to_op(key'[2])
           /\ display' = op_to_str(str_to_op(key'[2]))
           /\ num' = num
           /\ decimal' = FALSE
           /\ decimals' = 0]_vars

\* an operator was pressed on a pending addition entered in decimal
\* mode: 1 + 1.0 *
C15_Witness ==
    /\ key = <<"binary_op", "*">>
    /\ pre = <<"num", "ADD", TRUE>>
    /\ result = Int2Dbl(2)
    /\ num = Int2Dbl(1)

\* C16, as stated: after every handled press of a binary operator or "=",
\* pending_operator is none.
C16_OpNoneAfterStep ==
    [][(key'[1] = "binary_op" /\ key'[2] \in OpLabels \cup {"="}) =>
           op' = "DEFAULT"]_vars

\* C16, amended: after a handled press of "=" pending_operator is none, and
\* after a handled press of a binary operator it is the operator pressed.
C16_OpFollowsPress ==
    [][(key'[1] = "binary_op" /\ key'[2] \in OpLabels \cup {"="}) =>
           op' = (IF key'[2] = "=" THEN "DEFAULT" ELSE str_to_op(key'[2]))]_vars

\* "=" consumed a pending subtraction
C16_Witness ==
    key = <<"binary_op", "=">> /\ pre[2] = "SUB" /\ op = "DEFAULT"

\* C18: while the display shows an operator symbol, the unary buttons and
\* the decimal point change no field and not the display.
C18_IgnoredOnOperator ==
    [][(/\ Shown(display) = "op"
        /\ key'[1] \in {"sign", "percent", "special_op", "point"}) =>
           UNCHANGED calc]_vars

\* (+/-) was pressed while "+" was displayed after the operand 2
C18_Witness ==
    /\ key = <<"sign", "">>
    /\ pre = <<"op", "ADD", FALSE>>
    /\ display = "+"
    /\ num = Int2Dbl(2)

\* C19: decimal_digit_count is never negative, is zero whenever
\* decimal_mode is false, and is zero right after an accepted decimal point.
C19_DecimalsZeroOutsideMode ==
    /\ decimals >= 0
    /\ ~decimal => decimals = 0
    /\ (key[1] = "point" /\ ~pre[3] /\ pre[1] # "op") =>
           (decimal /\ decimals = 0)

\* the last press displayed current_operand through num2str outside decimal
\* mode: "=", or a unary key that found no operator displayed
Formatted ==
    \/ key = <<"binary_op", "=">>
    \/ key[1] \in {"sign", "percent", "special_op"} /\ pre[1] # "op"

\* the decimal text of a finite value with all its fraction digits and no
\* others
Shortest(v) ==
    IF IsZero(v) THEN "0"
    ELSE (IF v.n < 0 THEN "-" ELSE "") \o FixedDigits(v.n, v.d, FracLen(v))

\* C12: outside decimal-entry mode a value with an exact fraction of k <= 7
\* digits is displayed with exactly k fraction digits and no trailing zeros,
\* an integer without a point and zero as "0".
C12_ShortestForm ==
    (/\ Formatted
     /\ IsFinite(num)
     /\ FracLen(num) <= MAX_PRECISION) => display = Shortest(num)

\* C13: after a digit press in decimal-entry mode the display is
\* current_operand written with exactly decimal_digit_count digits after the
\* point.
C13_LiteralFraction ==
    (key[1] = "entering" /\ decimal /\ IsFinite(num)) =>
        /\ decimals >= 0
        /\ display = (IF SignBit(num) THEN "-" ELSE "")
                          \o FixedDigits(num.n, num.d, decimals)

\* a minus sign followed only by zeros and decimal points
MinusZeroText(str) ==
    /\ Len(str) >= 2
    /\ SubSeq(str, 1, 1) = "-"
    /\ \A i \in 2 .. Len(str) : SubSeq(str, i, i) \in {"0", "."}

\* C14: the display never shows a minus-signed zero such as "-0" or
\* "-0.0".
C14_NoMinusZero == ~MinusZeroText(display)

\* C20: pressing digit 0 while the display is exactly "0" changes neither
\* the operand, the result, the pending operator, the decimal mode, the
\* digit count nor the display.
C20_LeadingZeroIgnored ==
    [][(key'[1] = "entering" /\ key'[2] = "0" /\ display = "0") =>
           /\ NumEq(num', num)
           /\ UNCHANGED <<result, op, decimal, decimals, display>>]_vars

\* C17: a digit pressed on an operator display replaces the display by the
\* digit and current_operand by its value, leaving accumulated_result,
\* pending_operator, decimal_mode and decimal_digit_count unchanged; the
\* digit pressed after it is appended to that operand.
C17_DigitStartsOperand ==
    [][(key'[1] = "entering") =>
           /\ (str_to_op(display) # "DEFAULT") =>
                  /\ display' = key'[2]
                  /\ num' = Int2Dbl(DigitVal(key'[2]))
                  /\ UNCHANGED <<result, op, decimal, decimals>>
           /\ (key[1] = "entering" /\ pre[1] = "op") =>
                  /\ num' = DAdd(DMul(num, Int2Dbl(10)),
                                 Int2Dbl(DigitVal(key'[2])))
                  /\ display' = num2str(num', FALSE, 0)
                  /\ UNCHANGED <<result, op, decimal, decimals>>]_vars

\* 12 + was followed by the digits 2 and 5
C17_Witness ==
    /\ key = <<"entering", "5">>
    /\ pre = <<"num", "ADD", FALSE>>
    /\ num = Int2Dbl(25)
    /\ result = Int2Dbl(12)
    /\ display = "25"

\* the number of decimal points in a text
RECURSIVE Points(_)
Points(str) ==
    IF Len(str) = 0 THEN 0
    ELSE (IF SubSeq(str, 1, 1) = "." THEN 1 ELSE 0)
             + Points(SubSeq(str, 2, Len(str)))

\* an optional minus sign followed by digits only
IsIntegerText(str) ==
    LET body == IF Len(str) > 0 /\ SubSeq(str, 1, 1) = "-"
                THEN SubSeq(str, 2, Len(str)) ELSE str
    IN  /\ Len(body) > 0
        /\ \A i \in 1 .. Len(body) : SubSeq(body, i, i) \in DigitLabels

\* C21: the display holds at most one decimal point, and a display ending
\* in a decimal point is an integer numeral followed by that point.
C21_SinglePoint ==
    /\ Points(display) <= 1
    /\ (Len(display) > 0 /\ SubSeq(display, Len(display), Len(display)) = ".")
           => IsIntegerText(SubSeq(display, 1, Len(display) - 1))

\* the precision num2str passes to precise_num2str for a finite nonzero
\* value outside decimal mode: the first accepted one, else the fallback
ChosenPrecision(v) ==
    IF FirstClose(v, 0) >= 0 THEN FirstClose(v, 0) ELSE FallbackPrecision(v)

\* C22: an operand formatted outside decimal mode is displayed in at most
\* TOT_DIGITS characters, and the text is the whole rendering of the value
\* at the precision the formatter chose.
C22_FitsWidth ==
    (/\ Formatted
     /\ IsFinite(num) /\ ~IsZero(num)) =>
        /\ Len(display) <= TOT_DIGITS
        /\ display = Printf(num, ChosenPrecision(num))

\* the last press was a unary key, a recognised operator, "=" or Clear
LeftDecimalMode ==
    \/ key[1] \in {"sign", "percent", "special_op", "clear"}
    \/ key[1] = "binary_op" /\ (key[2] \in OpLabels \/ key[2] = "=")

\* C23: after a unary key, a recognised operator, "=" or Clear,
\* decimal_mode is false and decimal_digit_count is 0, and the digit pressed
\* next starts an operand or is appended as an integer digit, the mode
\* staying off.
C23_ExitsDecimalMode ==
    [][/\ LeftDecimalMode' => (~decimal' /\ decimals' = 0)
       /\ (LeftDecimalMode /\ key'[1] = "entering") =>
              /\ ~decimal' /\ decimals' = 0
              /\ num' = IF Shown(display) = "op" \/ ShowsError(display)
                        THEN Int2Dbl(DigitVal(key'[2]))
                        ELSE DAdd(DMul(num, Int2Dbl(10)),
                                  Int2Dbl(DigitVal(key'[2])))]_vars

\* . 5 +/- was followed by the digit 4, giving -0.5 * 10 + 4
C23_Witness ==
    /\ key = <<"entering", "4">>
    /\ pre = <<"num", "DEFAULT", FALSE>>
    /\ num = Int2Dbl(-1)
    /\ display = "-1"
    /\ ~decimal /\ decimals = 0

\* C24: whenever pending_operator is none, accumulated_result is 0.
C24_NoPendingNoResult == (op = "DEFAULT") => (result = Zero)

\* 1 + 1 = has just displayed 2 and zeroed the running total
C24_Witness ==
    /\ key = <<"binary_op", "=">>
    /\ pre = <<"num", "ADD", FALSE>>
    /\ num = Int2Dbl(2)
    /\ op = "DEFAULT"
    /\ result = Zero

\* C25: a display that shows an operator symbol goes with that operator
\* pending and decimal_mode false; it comes from the press of that operator
\* and otherwise only stays over presses that are neither digits nor Clear.
C25_OperatorDisplay ==
    [][(Shown(display') = "op") =>
           /\ op' = str_to_op(display')
           /\ ~decimal'
           /\ IF key'[1] = "binary_op" /\ key'[2] \in OpLabels
              THEN display' = op_to_str(str_to_op(key'[2]))
              ELSE display' = display /\ key'[1] \notin {"entering", "clear"}]_vars

\* 0 . 5 - and a decimal point, which the operator display ignores
C25_Witness ==
    /\ key = <<"point", "">>
    /\ pre = <<"op", "SUB", FALSE>>
    /\ display = op_to_str("SUB")
    /\ op = "SUB"
    /\ result = Fin(1, 2)
    /\ ~decimal

\* C26: a digit, decimal point or unary key leaves pending_operator
\* unchanged, and leaves accumulated_result unchanged unless it is a digit
\* pressed on an error marker, which may set it to 0; so only an operator,
\* "=" or Clear changes pending_operator.
C26_FrameOfEntryKeys ==
    [][/\ (key'[1] \in {"entering", "point", "sign", "percent", "special_op"})
              => /\ op' = op
                 /\ \/ result' = result
                    \/ /\ key'[1] = "entering"
                       /\ display \in ErrorMarkers
                       /\ result' = Zero
       /\ (op' # op) => key'[1] \in {"binary_op", "clear"}]_vars

\* 1 + 1 +/- x! showed inf with 1 + pending, and the digit 2 zeroed the
\* running total
C26_Witness ==
    /\ variant = "sci"
    /\ key = <<"entering", "2">>
    /\ pre = <<"err", "ADD", FALSE>>
    /\ op = "ADD"
    /\ result = Zero
    /\ num = Int2Dbl(2)

\* a text whose last character is a decimal point
EndsInPoint(str) ==
    Len(str) > 0 /\ SubSeq(str, Len(str), Len(str)) = "."

\* C27: unless the display shows an operator symbol or ends in a decimal
\* point, it is the formatter's text for current_operand, decimal_mode and
\* decimal_digit_count.
C27_DisplayIsOperand ==
    (Shown(display) # "op" /\ ~EndsInPoint(display)) =>
        display = num2str(num, decimal, decimals)

\* C28: a binary operator pressed while an operator symbol is displayed
\* applies the pending operator to accumulated_result and the unchanged
\* current_operand, and becomes the pending operator.
C28_OperatorOnOperator ==
    [][(/\ key'[1] = "binary_op" /\ key'[2] \in OpLabels
        /\ Shown(display) = "op") =>
           /\ result' = do_op(result, op, num)
           /\ op' = str_to_op(key'[2])
           /\ num' = num
           /\ display' = op_to_str(op')]_vars

\* 1 + * : the running total is 1 + 1 and the pending operator is *
C28_Witness ==
    /\ key = <<"binary_op", "*">>
    /\ pre = <<"op", "ADD", FALSE>>
    /\ num = Int2Dbl(1)
    /\ result = Int2Dbl(2)
    /\ op = "MUL"

C30_ErrorNotLost ==
    [][(/\ variant = "calc"
        /\ ~IsFinite(result)
        /\ key'[1] \in {"entering", "binary_op"}) =>
           IF key' = <<"binary_op", "=">>
           THEN display' \in ErrorMarkers /\ ~IsFinite(num')
           ELSE ~IsFinite(result')]_vars

\* 1 / 0 + 1 = ends the chain showing inf
C30_Witness ==
    /\ variant = "calc"
    /\ key = <<"binary_op", "=">>
    /\ pre = <<"num", "ADD", FALSE>>
    /\ num = PosInf
    /\ display = "inf"

\* C31: on the scientific keypad, when a unary key has displayed an error
\* marker while an operator is pending, the next digit zeroes
\* accumulated_result, makes current_operand the digit and keeps the pending
\* operator; "=" pressed after that digit displays the pending operator
\* applied to 0 and the digit.
C31_RecoveryKeepsOperator ==
    [][/\ (/\ variant = "sci"
           /\ key[1] = "special_op" /\ display \in ErrorMarkers
           /\ op # "DEFAULT"
           /\ key'[1] = "entering") =>
              /\ result' = Zero
              /\ num' = Int2Dbl(DigitVal(key'[2]))
              /\ op' = op
       /\ (/\ variant = "sci"
           /\ key[1] = "entering" /\ pre[1] = "err" /\ op # "DEFAULT"
           /\ key' = <<"binary_op", "=">>) =>
              display' = num2str(do_op(Zero, op, Int2Dbl(DigitVal(key[2]))),
                                 FALSE, 0)]_vars

====
